---------------------------- MODULE Spec2Model ----------------------------
(***************************************************************************)
(* Verification model of cumulus13/bandwidthmon: the three executables     *)
(* bandwidthmon (variant 1), bandwidthmon2 (variant 2) and bandwidthmon3   *)
(* (variant 3).                                                            *)
(*                                                                         *)
(* Time is counted in half-milliseconds, so that an elapsed time below     *)
(* 1 ms (the guard of NetworkMonitor::update) is a positive number.        *)
(* f64 rates are modelled as exact rationals <<numerator, denominator>>    *)
(* in lowest terms; f64::INFINITY is <<1, 0>>.  Rounding is not modelled.  *)
(***************************************************************************)
EXTENDS Integers, Sequences, FiniteSets, TLC

(***************************************************************************)
(* Bounds of the model.                                                    *)
(***************************************************************************)
\* update calls made by the loop of bandwidthmon / bandwidthmon2
MaxUpdates == 3
\* loop iterations (event polls) of bandwidthmon / bandwidthmon2
MaxPolls == 4
\* ticks of the main loop of bandwidthmon3
MaxTicks == 3
\* ticks of bandwidthmon3 on an idle interface while the terminal is resized
MaxResizeTicks == 52
\* interfaces listed when interface resolution is examined alone
MaxIfaces == 3
\* values in a series handed to render_chart
MaxSeries == 3

(***************************************************************************)
(* Time.                                                                   *)
(***************************************************************************)
Millis(n) == 2 * n
Secs(n) == 2000 * n

\* const INTERVAL of the variant
INTERVAL(v) == IF v = 1 THEN Millis(500) ELSE Secs(1)

\* event::poll(Duration::from_millis(50))
PollTimeout == Millis(50)

(***************************************************************************)
(* f64 arithmetic on exact rationals.                                      *)
(***************************************************************************)
Abs(x) == IF x < 0 THEN 0 - x ELSE x

RECURSIVE GCD(_, _)
GCD(a, b) == IF b = 0 THEN a ELSE GCD(b, a % b)

\* the rational n/d (d > 0) in lowest terms
Rat(n, d) == LET g == GCD(Abs(n), d) IN <<n \div g, d \div g>>

Zero == Rat(0, 1)
FInfinity == <<1, 0>>

FAdd(p, q) == Rat(p[1] * q[2] + q[1] * p[2], p[2] * q[2])
FSub(p, q) == Rat(p[1] * q[2] - q[1] * p[2], p[2] * q[2])
\* p / n for a positive count n
FDivN(p, n) == Rat(p[1], p[2] * n)
FLeq(p, q) == p[1] * q[2] <= q[1] * p[2]
\* a faulty choice, which C11_PeakIsMaximum must notice: the smaller one
FSmaller(p, q) == IF FLeq(p, q) THEN p ELSE q

\* f64::max and f64::min on finite values
FMax(p, q) == IF FLeq(p, q) THEN q ELSE p
FMin(p, q) == IF FLeq(p, q) THEN p ELSE q

RECURSIVE FSum(_)
FSum(s) == IF s = <<>> THEN Zero ELSE FAdd(s[1], FSum(Tail(s)))

\* a faulty difference, which C4_ResetGivesZero must notice: no clamp at 0
PlainSub(a, b) == a - b

\* u64::saturating_sub
SaturatingSub(a, b) == IF a >= b THEN a - b ELSE 0

\* (bytes as f64) / elapsed, elapsed in seconds: bytes per second
BytesPerSec(bytes, elapsed) == Rat(bytes * Secs(1), elapsed)

(***************************************************************************)
(* Interface names: sequences of characters.                               *)
(***************************************************************************)
ToLowerChar(c) ==
    CASE c = "E" -> "e"
      [] c = "T" -> "t"
      [] c = "H" -> "h"
      [] c = "W" -> "w"
      [] c = "L" -> "l"
      [] OTHER -> c

\* str::to_lowercase
ToLowercase(s) == [i \in 1..Len(s) |-> ToLowerChar(s[i])]

\* str::contains
Contains(s, p) ==
    \E i \in 0..(Len(s) - Len(p)) : SubSeq(s, i + 1, i + Len(p)) = p

\* the elements of a sequence that satisfy Test, in order
SelectNames(names, pat) ==
    SelectSeq(names, LAMBDA n : Contains(ToLowercase(n), ToLowercase(pat)))

\* a faulty choice, which C13_ShortestFirst must notice: the last of the
\* shortest
RECURSIVE MinByLenLast(_)
MinByLenLast(s) ==
    IF Len(s) = 1 THEN s[1]
    ELSE LET m == MinByLenLast(Tail(s)) IN
         IF Len(s[1]) < Len(m) THEN s[1] ELSE m

\* Iterator::min_by_key(|s| s.len()): the first of the shortest
RECURSIVE MinByLen(_)
MinByLen(s) ==
    IF Len(s) = 1 THEN s[1]
    ELSE LET m == MinByLen(Tail(s)) IN
         IF Len(s[1]) <= Len(m) THEN s[1] ELSE m

\* Iterator::max_by_key(|(_, data)| rx + tx): the last of the largest
RECURSIVE MaxByTotal(_)
MaxByTotal(s) ==
    IF Len(s) = 1 THEN s[1]
    ELSE LET m == MaxByTotal(Tail(s)) IN
         IF s[1].rx + s[1].tx > m.rx + m.tx THEN s[1] ELSE m

Names(avail) == [i \in 1..Len(avail) |-> avail[i].name]

\* a resolution's outcome: the name, or the error and the names it lists
Found(n) == [ok |-> TRUE, name |-> n, err |-> "none", listed |-> <<>>]
\* "No network interfaces found"
NotFound ==
    [ok |-> FALSE, name |-> <<>>, err |-> "no_interfaces", listed |-> <<>>]
\* "No interface matches '..'. Available interfaces: .." with the names joined
NoMatch(interfaces) ==
    [ok |-> FALSE, name |-> <<>>, err |-> "no_match", listed |-> interfaces]
\* "Invalid pattern: .." with the regex parser's message
InvalidPattern ==
    [ok |-> FALSE, name |-> <<>>, err |-> "invalid_pattern", listed |-> <<>>]

\* select_best_interface (bandwidthmon, bandwidthmon2)
select_best_interface(avail) ==
    IF avail = <<>> THEN NotFound ELSE Found(MaxByTotal(avail).name)

\* resolve_interface (bandwidthmon, bandwidthmon2)
resolve_interface(pattern, avail) ==
    LET interfaces == Names(avail)
        matches == SelectNames(interfaces, pattern)
    IN  IF \E i \in 1..Len(interfaces) : interfaces[i] = pattern
            THEN Found(pattern)
        ELSE IF matches = <<>> THEN NoMatch(interfaces)
        ELSE IF Len(matches) = 1 THEN Found(matches[1])
        ELSE Found(MinByLen(matches))

\* str::replace(from, to), on a sequence of characters
RECURSIVE Replace(_, _, _)
Replace(str, from, to) ==
    IF str = <<>> THEN <<>>
    ELSE (IF str[1] = from THEN to ELSE <<str[1]>>)
            \o Replace(Tail(str), from, to)

\* pattern.replace(".", "\\.").replace("(", "\\(").replace(")", "\\)")
\*        .replace("*", ".*").replace("?", ".")
regex_pattern(pattern) ==
    Replace(Replace(Replace(Replace(Replace(pattern,
        ".", <<"\\", ".">>), "(", <<"\\", "(">>), ")", <<"\\", ")">>),
        "*", <<".", "*">>), "?", <<".">>)

\* the atoms of a regex: a literal character or any character, taken once,
\* zero or more times (star) or one or more times (plus)
Lit(c) == [any |-> FALSE, ch |-> c, rep |-> "one"]
AnyChar == [any |-> TRUE, ch |-> ".", rep |-> "one"]

\* a repetition operator applied to the last atom read
Repeat(atoms, op) ==
    LET k == Len(atoms)
        old == atoms[k].rep
    IN  [atoms EXCEPT ![k].rep =
            IF old = "star" \/ op = "*" THEN "star" ELSE "plus"]

\* the regex parser on the characters of the regex: \c is the character c,
\* . is any character, * and + repeat the atom before them, every other
\* character of the model's alphabet is itself
RECURSIVE ParseRegex(_, _)
ParseRegex(src, atoms) ==
    IF src = <<>> THEN atoms
    ELSE IF src[1] = "\\"
        THEN ParseRegex(Tail(Tail(src)), Append(atoms, Lit(src[2])))
    ELSE IF src[1] = "."
        THEN ParseRegex(Tail(src), Append(atoms, AnyChar))
    ELSE IF src[1] \in {"*", "+"}
        THEN ParseRegex(Tail(src), Repeat(atoms, src[1]))
    ELSE ParseRegex(Tail(src), Append(atoms, Lit(src[1])))

\* Regex::new fails on a character class that is opened and never closed
\* (the model's alphabet has no "]")
RegexCompiles(src) == \A i \in 1..Len(src) : src[i] # "["

AtomHits(atom, c) == atom.any \/ ToLowerChar(atom.ch) = ToLowerChar(c)

\* Regex "(?i)^..$" is_match: the atoms consume the whole name
RECURSIVE is_match(_, _)
is_match(atoms, n) ==
    IF atoms = <<>> THEN n = <<>>
    ELSE IF atoms[1].rep = "one"
        THEN /\ n # <<>>
             /\ AtomHits(atoms[1], n[1])
             /\ is_match(Tail(atoms), Tail(n))
    ELSE IF atoms[1].rep = "star"
        THEN \/ is_match(Tail(atoms), n)
             \/ /\ n # <<>>
                /\ AtomHits(atoms[1], n[1])
                /\ is_match(atoms, Tail(n))
    ELSE /\ n # <<>>
         /\ AtomHits(atoms[1], n[1])
         /\ (is_match(Tail(atoms), Tail(n)) \/ is_match(atoms, Tail(n)))

\* for iface in &interfaces { if test(iface) { return Ok(iface) } } ; Err(..):
\* the first of the names that pass the test, given in the list's order
first_match(matches, interfaces) ==
    IF matches = <<>> THEN NoMatch(interfaces) ELSE Found(matches[1])

\* find_matching_interface (bandwidthmon3)
find_matching_interface(pattern, avail) ==
    LET interfaces == Names(avail)
        has_wildcards == \E i \in 1..Len(pattern) : pattern[i] \in {"*", "?"}
        src == regex_pattern(pattern)
    IN  IF interfaces = <<>> THEN NotFound
        ELSE IF pattern = <<>> THEN Found(interfaces[1])
        ELSE IF has_wildcards
            THEN IF ~RegexCompiles(src) THEN InvalidPattern
                 ELSE first_match(SelectSeq(interfaces,
                          LAMBDA n : is_match(ParseRegex(src, <<>>), n)),
                          interfaces)
        ELSE first_match(SelectSeq(interfaces,
                 LAMBDA n : Contains(ToLowercase(n), ToLowercase(pattern))),
                 interfaces)

(***************************************************************************)
(* VecDeque<f64>: its items (oldest first) and its allocated capacity.     *)
(* VecDeque::with_capacity(n) allocates exactly n slots for an f64 deque   *)
(* (std since 1.67, which the sysinfo Networks API requires); push_back on *)
(* a full deque grows the allocation to max(2 * cap, 4).                   *)
(***************************************************************************)
with_capacity(n) == [items |-> <<>>, cap |-> n]

grow(cap) == IF 2 * cap > 4 THEN 2 * cap ELSE 4

push_back(dq, x) ==
    [items |-> Append(dq.items, x),
     cap |-> IF Len(dq.items) = dq.cap THEN grow(dq.cap) ELSE dq.cap]

pop_front(dq) ==
    IF dq.items = <<>> THEN dq ELSE [dq EXCEPT !.items = Tail(@)]

(***************************************************************************)
(* The environment the model draws from.                                   *)
(***************************************************************************)
\* cumulative byte counters <<rx, tx>> the OS may report at a read; a read
\* below the previous one is a counter reset
Readings == {<<0, 0>>, <<10, 0>>, <<30, 5>>, <<60, 0>>}

\* the counters the OS may report at the first read
FirstReadings == {<<0, 0>>}

\* --history values
Histories == {0, 2}

eth0 == <<"e", "t", "h", "0">>
wlan0 == <<"w", "l", "a", "n", "0">>
Eth == <<"E", "t", "h">>
zzz == <<"z", "z", "z">>

NoIface == [some |-> FALSE, pat |-> <<>>]
Iface(p) == [some |-> TRUE, pat |-> p]

TwoIfaces == << [name |-> eth0, rx |-> 60, tx |-> 5],
                [name |-> wlan0, rx |-> 10, tx |-> 0] >>

\* the interfaces the system reports at startup and the -i option
Scenarios ==
    { [avail |-> <<>>, iface |-> NoIface],
      [avail |-> TwoIfaces, iface |-> Iface(Eth)],
      [avail |-> TwoIfaces, iface |-> Iface(zzz)] }

VARIABLES
    variant,        \* 1: bandwidthmon, 2: bandwidthmon2, 3: bandwidthmon3
    pc,             \* position of the main thread
    now,            \* the clock (Instant::now()), in half-milliseconds
    running,        \* the shared AtomicBool
    handler,        \* the ctrlc handler is installed
    exit_status,    \* -1 while the process runs, then its exit status
    avail,          \* interfaces reported at startup
    iface,          \* the -i option
    interface,      \* the resolved interface name
    message,        \* the error a failed resolution reports
    args,           \* the other options
    alt_screen,     \* the terminal is in the alternate screen
    cursor_hidden,  \* the cursor is hidden
    raw_mode,       \* raw mode is enabled
    monitor,        \* the NetworkMonitor
    last_update,    \* monitor_bandwidth: last_update
    result,         \* monitor_bandwidth: result of the loop closure
    updates,        \* update calls made
    polls,          \* loop iterations made
    stats,          \* bandwidthmon3: stats
    download_history, \* bandwidthmon3: download_history
    upload_history, \* bandwidthmon3: upload_history
    prev_stats,     \* bandwidthmon3: prev_stats
    last_time,      \* bandwidthmon3: last_time
    term_w,         \* bandwidthmon3: the terminal width get_term_size reports
    loc,            \* bandwidthmon3: the locals of the current tick
    ticks,          \* bandwidthmon3: ticks started
    listener,       \* bandwidthmon3: the stdin listener thread is alive
    final_printed,  \* bandwidthmon3: calls of print_final_stats
    rec_dl,         \* history variable: every download rate recorded
    rec_ul,         \* history variable: every upload rate recorded
    read_at,        \* history variable: instant the retained counters were read
    tick,           \* history variable: what the last tick did
    ended_by,       \* history variable: what ended the session
    cancel_samples, \* history variable: samples recorded when running fell
    plot,           \* bandwidthmon2: the arguments of a call of render_chart
    chart,          \* bandwidthmon2: what that call returned
    ui              \* bandwidthmon2: the charts of a call of render_ui

progVars == <<variant, pc, now, running, handler, exit_status>>
argVars == <<avail, iface, interface, message, args>>
termVars == <<alt_screen, cursor_hidden, raw_mode>>
monVars == <<monitor, last_update, result, updates, polls>>
m3Vars == <<stats, download_history, upload_history, prev_stats, last_time,
            term_w, loc, ticks, listener, final_printed>>
histVars == <<rec_dl, rec_ul, read_at, tick, ended_by, cancel_samples>>

chartVars == <<plot, chart, ui>>
vars == <<progVars, argVars, termVars, monVars, m3Vars, histVars, chartVars>>

NoTick == [kind |-> "none", elapsed |-> 0, rx |-> 0, tx |-> 0,
           old_rx |-> 0, old_tx |-> 0, old_read_at |-> 0, at |-> 0,
           dl |-> Zero, ul |-> Zero]

\* the fields of struct NetworkMonitor, before NetworkMonitor::new
NoMonitor ==
    [created |-> FALSE,
     history_dl |-> with_capacity(0), history_ul |-> with_capacity(0),
     prev_rx |-> 0, prev_tx |-> 0, prev_time |-> 0,
     peak_dl |-> Zero, peak_ul |-> Zero, avg_dl |-> Zero, avg_ul |-> Zero,
     sample_count |-> 0]

(***************************************************************************)
(* NetworkMonitor (bandwidthmon, bandwidthmon2).                            *)
(***************************************************************************)
\* NetworkMonitor::new, the Ok path
new(history_size, rx, tx, t) ==
    [created |-> TRUE,
     history_dl |-> with_capacity(history_size),
     history_ul |-> with_capacity(history_size),
     prev_rx |-> rx, prev_tx |-> tx, prev_time |-> t,
     peak_dl |-> Zero, peak_ul |-> Zero, avg_dl |-> Zero, avg_ul |-> Zero,
     sample_count |-> 0]

\* a history that never evicts
push_no_evict(h, x) == push_back(h, x)

\* if len >= capacity { pop_front } ; push_back
push_history(h, x) ==
    push_back(IF Len(h.items) >= h.cap THEN pop_front(h) ELSE h, x)

\* avg += (x - avg) / sample_count
\* a faulty running mean, which C10_AverageIsMean must notice: a fixed weight
half_step(avg, x, n) == FAdd(avg, FDivN(FSub(x, avg), 2))

mean_step(avg, x, n) == FAdd(avg, FDivN(FSub(x, avg), n))

\* let elapsed = cur_time.duration_since(self.prev_time)
elapsed_since(m, cur_time) == cur_time - m.prev_time

\* if elapsed < 0.001 { return Ok(zero rates) }
too_close(elapsed) == elapsed < Millis(1)

\* the rates NetworkMonitor::update returns on its Ok paths
update_rates(m, cur_rx, cur_tx, cur_time) ==
    LET elapsed == elapsed_since(m, cur_time) IN
    IF too_close(elapsed) THEN [dl |-> Zero, ul |-> Zero]
    ELSE [dl |-> BytesPerSec(SaturatingSub(cur_rx, m.prev_rx), elapsed),
          ul |-> BytesPerSec(SaturatingSub(cur_tx, m.prev_tx), elapsed)]

\* an update that counts a sample on every path
update_counts(m, cur_rx, cur_tx, cur_time) ==
    [m EXCEPT !.sample_count = @ + 1]

\* the monitor after NetworkMonitor::update returned Ok
update(m, cur_rx, cur_tx, cur_time) ==
    LET elapsed == elapsed_since(m, cur_time)
        r == update_rates(m, cur_rx, cur_tx, cur_time)
        n == m.sample_count + 1
    IN  IF too_close(elapsed) THEN m
        ELSE [m EXCEPT !.prev_rx = cur_rx,
                       !.prev_tx = cur_tx,
                       !.prev_time = cur_time,
                       !.history_dl = push_history(@, r.dl),
                       !.history_ul = push_history(@, r.ul),
                       !.peak_dl = FMax(@, r.dl),
                       !.peak_ul = FMax(@, r.ul),
                       !.sample_count = n,
                       !.avg_dl = mean_step(@, r.dl, n),
                       !.avg_ul = mean_step(@, r.ul, n)]


(***************************************************************************)
(* Stats and the locals of bandwidthmon3.                                  *)
(***************************************************************************)
\* Stats::new
Stats_new ==
    [samples |-> 0, total_download |-> 0, total_upload |-> 0,
     min_download |-> FInfinity, max_download |-> Zero,
     min_upload |-> FInfinity, max_upload |-> Zero,
     download_rates |-> <<>>, upload_rates |-> <<>>]

avg_download(st) ==
    IF Len(st.download_rates) = 0 THEN Zero
    ELSE FDivN(FSum(st.download_rates), Len(st.download_rates))

avg_upload(st) ==
    IF Len(st.upload_rates) = 0 THEN Zero
    ELSE FDivN(FSum(st.upload_rates), Len(st.upload_rates))

NoLoc == [hist_size |-> 0, elapsed |-> 0, rx_diff |-> 0, tx_diff |-> 0,
          download_rate |-> Zero, upload_rate |-> Zero]

\* the options of bandwidthmon / bandwidthmon2 the model draws from
Args12 ==
    { [history |-> h, width |-> 0, interval |-> 0,
       download_only |-> FALSE, upload_only |-> FALSE] : h \in Histories }

\* the terminal widths get_term_size may report
TermWidths == {64, 65}

\* the options of bandwidthmon3 the model draws from
Args3 ==
    { [history |-> 0, width |-> 0, interval |-> Secs(1),
       download_only |-> FALSE, upload_only |-> FALSE],
      [history |-> 0, width |-> 2, interval |-> 0,
       download_only |-> FALSE, upload_only |-> FALSE],
      [history |-> 0, width |-> 2, interval |-> Secs(1),
       download_only |-> TRUE, upload_only |-> FALSE],
      [history |-> 0, width |-> 2, interval |-> Secs(1),
       download_only |-> FALSE, upload_only |-> TRUE] }

(***************************************************************************)
(* render_chart (bandwidthmon2).  A value is a rational, NaN or an         *)
(* infinity; a canvas cell is an index into BLOCKS, 0 the space and 8 the  *)
(* solid block; the colour codes, the same in every row, are left out.     *)
(***************************************************************************)
NaN == <<0, 0>>
NegInfinity == <<-1, 0>>

is_finite(v) == v[2] # 0

\* a <= b for values that are not NaN
f64_le(a, b) == IF a[2] = 0 /\ b[2] = 0 THEN a[1] <= b[1] ELSE FLeq(a, b)

\* f64::min and f64::max: a NaN operand is ignored
f64_min(a, b) ==
    IF a = NaN THEN b ELSE IF b = NaN THEN a ELSE IF f64_le(a, b) THEN a ELSE b
f64_max(a, b) ==
    IF a = NaN THEN b ELSE IF b = NaN THEN a ELSE IF f64_le(a, b) THEN b ELSE a

\* plot_data.iter().copied().fold(acc, f64::min) and fold(acc, f64::max)
RECURSIVE fold_min(_, _)
fold_min(s, acc) ==
    IF s = <<>> THEN acc ELSE fold_min(Tail(s), f64_min(acc, s[1]))
RECURSIVE fold_max(_, _)
fold_max(s, acc) ==
    IF s = <<>> THEN acc ELSE fold_max(Tail(s), f64_max(acc, s[1]))

FDiv(p, q) == Rat(p[1] * q[2], p[2] * q[1])
FMulN(p, n) == Rat(p[1] * n, p[2])
\* f64::floor of a value that is not negative
Floor(p) == p[1] \div p[2]

\* the value range: 1.0 when (max_val - min_val).abs() < f64::EPSILON, which
\* for the values of the model is when they are equal
chart_range(min_val, max_val) ==
    IF FSub(max_val, min_val) = Zero THEN Rat(1, 1)
    ELSE FSub(max_val, min_val)

\* the cell of row y (0 the top row) in the column of a finite value
chart_cell(value, min_val, range, height, y) ==
    LET normalized == FDiv(FSub(value, min_val), range)
        y_float == FMulN(FSub(Rat(1, 1), normalized), height)
        y_int == Floor(y_float)
        y_frac == FSub(y_float, Rat(y_int, 1))
        block_idx == Floor(FMulN(FSub(Rat(1, 1), y_frac), 8))
    IN  IF y >= y_int THEN 8
        ELSE IF y_int > 0 /\ y = y_int - 1 /\ ~FLeq(y_frac, Rat(1, 10))
            THEN (IF block_idx < 8 THEN block_idx ELSE 8)
        ELSE 0

\* a plot loop that writes the main block without the test y_int < height
unchecked_indices(value, min_val, range, height, x) ==
    LET normalized == FDiv(FSub(value, min_val), range)
        y_float == FMulN(FSub(Rat(1, 1), normalized), height)
        y_int == Floor(y_float)
    IN  {<<y_int, x>>} \cup {<<y, x>> : y \in (y_int + 1)..(height - 1)}

\* the canvas indices <<row, column>> the plot loop uses for the finite
\* value of column x: canvas[y_int][x] under  if y_int < height, canvas[y][x]
\* for y in (y_int + 1)..height, and canvas[prev_y][x] under
\* if y_int > 0 && y_frac > 0.1
canvas_indices(value, min_val, range, height, x) ==
    LET normalized == FDiv(FSub(value, min_val), range)
        y_float == FMulN(FSub(Rat(1, 1), normalized), height)
        y_int == Floor(y_float)
        y_frac == FSub(y_float, Rat(y_int, 1))
    IN  (IF y_int < height THEN {<<y_int, x>>} ELSE {})
        \cup {<<y, x>> : y \in (y_int + 1)..(height - 1)}
        \cup (IF y_int > 0 /\ ~FLeq(y_frac, Rat(1, 10))
              THEN {<<y_int - 1, x>>} ELSE {})

\* format!("{:.1}", ..): tenths, rounded to nearest, ties to even
RoundTenths(p) ==
    LET n == 10 * p[1]
        fl == n \div p[2]
        twice == 2 * (n - fl * p[2])
    IN  IF twice < p[2] THEN fl
        ELSE IF twice > p[2] THEN fl + 1
        ELSE IF fl % 2 = 0 THEN fl ELSE fl + 1

\* format_label: the digits, the unit and the width the text is padded to
format_label(val) ==
    IF FLeq(Rat(1000000, 1), val)
        THEN [tenths |-> RoundTenths(FDivN(val, 1000000)), unit |-> "M",
              pad |-> 6]
    ELSE IF FLeq(Rat(1000, 1), val)
        THEN [tenths |-> RoundTenths(FDivN(val, 1000)), unit |-> "K",
              pad |-> 6]
    ELSE [tenths |-> RoundTenths(val), unit |-> "", pad |-> 7]

\* "       ": the label of a row that has none
BlankLabel == [tenths |-> -1, unit |-> "", pad |-> 7]

\* the number of decimal digits of n >= 0
RECURSIVE Digits(_)
Digits(n) == IF n < 10 THEN 1 ELSE 1 + Digits(n \div 10)

\* the number of characters of a label: {:>6.1} and {:>7.1} pad with spaces
\* to a minimum width and never truncate
label_width(l) ==
    IF l = BlankLabel THEN 7
    ELSE LET text == Digits(l.tenths \div 10) + 2
         IN  (IF text < l.pad THEN l.pad ELSE text)
                + (IF l.unit = "" THEN 0 ELSE 1)

EmptyString == [kind |-> "empty", rows |-> <<>>, indices |-> {}]
InvalidData == [kind |-> "text", rows |-> <<>>, indices |-> {}]

\* render_chart without its early return
unguarded_chart(data, height, width) ==
    IF data = <<>> THEN InvalidData
    ELSE [kind |-> "chart",
          rows |-> [r \in 1..height |->
                      [label |-> BlankLabel, line |-> [x \in 1..width |-> 0]]],
          indices |-> {}]

render_chart(data, height, width) ==
    IF data = <<>> \/ height = 0 \/ width = 0 THEN EmptyString
    ELSE
    LET start_idx == SaturatingSub(Len(data), width)
        plot_data == SubSeq(data, start_idx + 1, Len(data))
        min_val == fold_min(plot_data, FInfinity)
        max_val == fold_max(plot_data, NegInfinity)
    IN  IF ~is_finite(min_val) \/ ~is_finite(max_val) THEN InvalidData
        ELSE
        LET range == chart_range(min_val, max_val)
            line(y) ==
                [x \in 1..width |->
                    IF x <= Len(plot_data) /\ is_finite(plot_data[x])
                    THEN chart_cell(plot_data[x], min_val, range, height, y)
                    ELSE 0]
            label(row_idx) ==
                IF row_idx = 0 THEN format_label(max_val)
                ELSE IF row_idx = height - 1 THEN format_label(min_val)
                ELSE IF row_idx = height \div 2
                    THEN format_label(FDivN(FAdd(max_val, min_val), 2))
                ELSE BlankLabel
        IN  [kind |-> "chart",
             rows |-> [r \in 1..height |->
                         [label |-> label(r - 1), line |-> line(r - 1)]],
             indices |->
                UNION { canvas_indices(plot_data[x], min_val, range, height,
                                       x - 1) :
                          x \in {i \in 1..Len(plot_data) :
                                    is_finite(plot_data[i])} }]

\* the values of a plotted series, the chart heights and the chart widths
ChartValues ==
    {Rat(5, 1), Rat(7, 1), Rat(10, 1), Rat(2500, 1), NaN, FInfinity,
     NegInfinity}
ChartHeights == {0, 1, 2, 3}
ChartWidths == {0, 2, 3}

RECURSIVE SeriesOf(_)
SeriesOf(n) ==
    IF n = 0 THEN {<<>>}
    ELSE {Append(d, v) : d \in SeriesOf(n - 1), v \in ChartValues}

Plots ==
    [data : UNION {SeriesOf(n) : n \in 0..MaxSeries}, height : ChartHeights,
     width : ChartWidths]

NoPlot == [data |-> <<>>, height |-> 0, width |-> 0]
NotRendered == [kind |-> "none", rows |-> <<>>, indices |-> {}]

\* render_ui: chart_width
chart_width(width, term_width) ==
    IF width > 0 THEN width ELSE SaturatingSub(term_width, 15)

\* render_ui: the charts pushed to the output, in order (the header, the
\* rates and the statistics above them are text that depends on no chart)
render_ui(dl_history, ul_history, height, width, download, upload, term_width) ==
    LET cw == chart_width(width, term_width)
        show_both == ~download /\ ~upload
        dl == IF (download \/ show_both) /\ dl_history # <<>>
              THEN <<render_chart(dl_history, height, cw)>> ELSE <<>>
        ul == IF (upload \/ show_both) /\ ~download /\ ul_history # <<>>
              THEN <<render_chart(ul_history, height, cw)>> ELSE <<>>
    IN  [drawn |-> TRUE, chart_width |-> cw, charts |-> dl \o ul]

NotDrawn == [drawn |-> FALSE, chart_width |-> 0, charts |-> <<>>]

\* args.download and args.upload, and the terminal widths size() may report
ChartFlags == {<<FALSE, FALSE>>, <<TRUE, FALSE>>, <<FALSE, TRUE>>}
UiTermWidths == {15, 17}

(***************************************************************************)
(* The initial state: the process has parsed its options.                  *)
(***************************************************************************)
\* no error reported
NoMessage == [err |-> "none", listed |-> <<>>]

\* the state at the start of main, the system and the options being one of S
InitWith(S) ==
    /\ pc = "start"
    /\ now = 0
    /\ running = TRUE
    /\ handler = FALSE
    /\ exit_status = -1
    /\ \E sc \in S : avail = sc.avail /\ iface = sc.iface
    /\ interface = <<>>
    /\ message = NoMessage
    /\ alt_screen = FALSE
    /\ cursor_hidden = FALSE
    /\ raw_mode = FALSE
    /\ monitor = NoMonitor
    /\ last_update = 0
    /\ result = "none"
    /\ updates = 0
    /\ polls = 0
    /\ stats = Stats_new
    /\ download_history = with_capacity(0)
    /\ upload_history = with_capacity(0)
    /\ prev_stats = [rx_bytes |-> 0, tx_bytes |-> 0]
    /\ last_time = 0
    /\ loc = NoLoc
    /\ ticks = 0
    /\ listener = FALSE
    /\ final_printed = 0
    /\ rec_dl = <<>>
    /\ rec_ul = <<>>
    /\ read_at = 0
    /\ tick = NoTick
    /\ ended_by = "none"
    /\ cancel_samples = -1
    /\ chart = NotRendered
    /\ ui = NotDrawn

InitCommon == InitWith(Scenarios) /\ plot = NoPlot

Init12 ==
    /\ variant \in {1, 2}
    /\ args \in Args12
    /\ term_w = 80
    /\ InitCommon

(***************************************************************************)
(* monitor_bandwidth and main of bandwidthmon / bandwidthmon2.             *)
(***************************************************************************)
\* main returns Err: the runtime prints it and exits with status 1
ReturnErr(why) ==
    /\ pc' = "returned"
    /\ exit_status' = 1
    /\ ended_by' = why

\* the interface monitor_bandwidth decides on
resolved12(opt, av) ==
    IF opt.some THEN resolve_interface(opt.pat, av)
    ELSE select_best_interface(av)

Resolve12 ==
    /\ variant \in {1, 2}
    /\ pc = "start"
    /\ LET r == resolved12(iface, avail) IN
       IF r.ok
       THEN /\ interface' = r.name
            /\ pc' = "new"
            /\ UNCHANGED <<exit_status, ended_by, message>>
       ELSE /\ ReturnErr("unresolved")
            /\ message' = [err |-> r.err, listed |-> r.listed]
            /\ UNCHANGED interface
    /\ UNCHANGED <<variant, now, running, handler, avail, iface, args>>
    /\ UNCHANGED chartVars
    /\ UNCHANGED <<termVars, monVars, m3Vars>>
    /\ UNCHANGED <<rec_dl, rec_ul, read_at, tick, cancel_samples>>

\* NetworkMonitor::new: the interface is (still) listed, its counters are read
New12Ok(rx, tx) ==
    /\ variant \in {1, 2}
    /\ pc = "new"
    /\ monitor' = new(args.history, rx, tx, now)
    /\ read_at' = now
    /\ pc' = "set_handler"
    /\ UNCHANGED <<variant, now, running, handler, exit_status>>
    /\ UNCHANGED <<chartVars, argVars, termVars, m3Vars>>
    /\ UNCHANGED <<last_update, result, updates, polls>>
    /\ UNCHANGED <<rec_dl, rec_ul, tick, ended_by, cancel_samples>>

\* NetworkMonitor::new: bail!("Interface '{}' not found")
New12Fail ==
    /\ variant \in {1, 2}
    /\ pc = "new"
    /\ ReturnErr("setup_error")
    /\ UNCHANGED <<variant, now, running, handler>>
    /\ UNCHANGED <<chartVars, argVars, termVars, monVars, m3Vars>>
    /\ UNCHANGED <<rec_dl, rec_ul, read_at, tick, cancel_samples>>

\* ctrlc::set_handler(...)?
SetHandler12(ok) ==
    /\ variant \in {1, 2}
    /\ pc = "set_handler"
    /\ IF ok
       THEN /\ handler' = TRUE
            /\ pc' = "enter_alt"
            /\ UNCHANGED <<exit_status, ended_by>>
       ELSE /\ ReturnErr("setup_error")
            /\ UNCHANGED handler
    /\ UNCHANGED <<variant, now, running>>
    /\ UNCHANGED <<chartVars, argVars, termVars, monVars, m3Vars>>
    /\ UNCHANGED <<rec_dl, rec_ul, read_at, tick, cancel_samples>>

\* execute!(stdout, EnterAlternateScreen, Hide)?  A failed write is taken to
\* have changed nothing on the terminal.
EnterAlt12(ok) ==
    /\ variant \in {1, 2}
    /\ pc = "enter_alt"
    /\ IF ok
       THEN /\ alt_screen' = TRUE
            /\ cursor_hidden' = TRUE
            /\ pc' = "enable_raw"
            /\ UNCHANGED <<exit_status, ended_by>>
       ELSE /\ ReturnErr("setup_error")
            /\ UNCHANGED <<alt_screen, cursor_hidden>>
    /\ UNCHANGED <<variant, now, running, handler, raw_mode>>
    /\ UNCHANGED <<chartVars, argVars, monVars, m3Vars>>
    /\ UNCHANGED <<rec_dl, rec_ul, read_at, tick, cancel_samples>>

\* enable_raw_mode()? ; let mut last_update = Instant::now()
EnableRaw12(ok) ==
    /\ variant \in {1, 2}
    /\ pc = "enable_raw"
    /\ IF ok
       THEN /\ raw_mode' = TRUE
            /\ last_update' = now
            /\ pc' = "while"
            /\ UNCHANGED <<exit_status, ended_by>>
       ELSE /\ ReturnErr("setup_error")
            /\ UNCHANGED <<raw_mode, last_update>>
    /\ UNCHANGED <<variant, now, running, handler, alt_screen, cursor_hidden>>
    /\ UNCHANGED <<chartVars, argVars, m3Vars>>
    /\ UNCHANGED <<monitor, result, updates, polls>>
    /\ UNCHANGED <<rec_dl, rec_ul, read_at, tick, cancel_samples>>

\* the closure ends: Ok(()) or the propagated error
EndLoop(res, why) ==
    /\ result' = res
    /\ ended_by' = why
    /\ pc' = "disable_raw"

\* while running.load(Ordering::SeqCst)
While12 ==
    /\ variant \in {1, 2}
    /\ pc = "while"
    /\ IF running
       THEN /\ polls < MaxPolls
            /\ pc' = "poll"
            /\ UNCHANGED <<result, ended_by>>
       ELSE EndLoop("ok", "interrupt")
    /\ UNCHANGED <<variant, now, running, handler, exit_status>>
    /\ UNCHANGED <<chartVars, argVars, termVars, m3Vars>>
    /\ UNCHANGED <<monitor, last_update, updates, polls>>
    /\ UNCHANGED <<rec_dl, rec_ul, read_at, tick, cancel_samples>>

\* the waits of event::poll the model draws from: with no event the timeout
\* passes, or the process is held up for a whole INTERVAL; an event or an
\* error is there at once
PollWaits(v, ev) == IF ev = "none" THEN {PollTimeout, INTERVAL(v)} ELSE {0}

\* a loop that samples in every iteration
always_due(last, t, v) == TRUE

\* if last_update.elapsed() >= INTERVAL
update_due(last, t, v) == t - last >= INTERVAL(v)

\* if event::poll(50 ms)? { if let Event::Key(k) = event::read()? {...} }
\* and the test  last_update.elapsed() >= INTERVAL
Poll12(dt, ev) ==
    /\ variant \in {1, 2}
    /\ pc = "poll"
    /\ now' = now + dt
    /\ polls' = polls + 1
    /\ CASE ev = "error" -> EndLoop("err", "tick_error")
         [] ev = "quit" -> EndLoop("ok", "quit")
         [] OTHER ->
              /\ update_due(last_update, now', variant) => updates < MaxUpdates
              /\ pc' = IF update_due(last_update, now', variant)
                       THEN "update" ELSE "while"
              /\ UNCHANGED <<result, ended_by>>
    /\ UNCHANGED <<variant, running, handler, exit_status>>
    /\ UNCHANGED <<chartVars, argVars, termVars, m3Vars>>
    /\ UNCHANGED <<monitor, last_update, updates>>
    /\ UNCHANGED <<rec_dl, rec_ul, read_at, tick, cancel_samples>>


\* monitor.update()? fails: "Interface disappeared"
Update12Fail ==
    /\ variant \in {1, 2}
    /\ pc = "update"
    /\ updates' = updates + 1
    /\ tick' = [NoTick EXCEPT !.kind = "failed", !.at = now]
    /\ EndLoop("err", "sample_error")
    /\ UNCHANGED <<variant, now, running, handler, exit_status>>
    /\ UNCHANGED <<chartVars, argVars, termVars, m3Vars>>
    /\ UNCHANGED <<monitor, last_update, polls>>
    /\ UNCHANGED <<rec_dl, rec_ul, read_at, cancel_samples>>

\* let stats = monitor.update()? returns Ok
Update12Ok(rx, tx) ==
    /\ variant \in {1, 2}
    /\ pc = "update"
    /\ updates' = updates + 1
    /\ monitor' = update(monitor, rx, tx, now)
    /\ LET elapsed == elapsed_since(monitor, now)
           r == update_rates(monitor, rx, tx, now)
           recorded == monitor'.sample_count > monitor.sample_count
       IN  /\ tick' = [kind |-> IF recorded THEN "recorded" ELSE "zero",
                       elapsed |-> elapsed, rx |-> rx, tx |-> tx,
                       old_rx |-> monitor.prev_rx, old_tx |-> monitor.prev_tx,
                       old_read_at |-> read_at, at |-> now,
                       dl |-> r.dl, ul |-> r.ul]
           /\ rec_dl' = IF recorded THEN Append(rec_dl, r.dl) ELSE rec_dl
           /\ rec_ul' = IF recorded THEN Append(rec_ul, r.ul) ELSE rec_ul
           /\ read_at' = IF monitor'.prev_time = now THEN now ELSE read_at
    /\ pc' = "render"
    /\ UNCHANGED <<variant, now, running, handler, exit_status>>
    /\ UNCHANGED <<chartVars, argVars, termVars, m3Vars>>
    /\ UNCHANGED <<last_update, result, polls>>
    /\ UNCHANGED <<ended_by, cancel_samples>>

\* the time one redraw takes
RenderTimes == {PollTimeout}

\* size()?, render_ui(..)?, queue!(..)?, stdout.flush()? ;
\* last_update = Instant::now()
Render12(ok, dt) ==
    /\ variant \in {1, 2}
    /\ pc = "render"
    /\ now' = now + dt
    /\ IF ok
       THEN /\ last_update' = now'
            /\ pc' = "while"
            /\ UNCHANGED <<result, ended_by>>
       ELSE /\ EndLoop("err", "tick_error")
            /\ UNCHANGED last_update
    /\ UNCHANGED <<variant, running, handler, exit_status>>
    /\ UNCHANGED <<chartVars, argVars, termVars, m3Vars>>
    /\ UNCHANGED <<monitor, updates, polls>>
    /\ UNCHANGED <<rec_dl, rec_ul, read_at, tick, cancel_samples>>

\* disable_raw_mode()?
DisableRaw12(ok) ==
    /\ variant \in {1, 2}
    /\ pc = "disable_raw"
    /\ IF ok
       THEN /\ raw_mode' = FALSE
            /\ pc' = "leave_alt"
            /\ UNCHANGED <<exit_status, ended_by>>
       ELSE /\ ReturnErr("cleanup_error")
            /\ UNCHANGED raw_mode
    /\ UNCHANGED <<variant, now, running, handler, alt_screen, cursor_hidden>>
    /\ UNCHANGED <<chartVars, argVars, monVars, m3Vars>>
    /\ UNCHANGED <<rec_dl, rec_ul, read_at, tick, cancel_samples>>

\* execute!(stdout, LeaveAlternateScreen, Show)?  A failed write is taken to
\* have changed nothing on the terminal.
LeaveAlt12(ok) ==
    /\ variant \in {1, 2}
    /\ pc = "leave_alt"
    /\ IF ok
       THEN /\ alt_screen' = FALSE
            /\ cursor_hidden' = FALSE
            /\ pc' = "report"
            /\ UNCHANGED <<exit_status, ended_by>>
       ELSE /\ ReturnErr("cleanup_error")
            /\ UNCHANGED <<alt_screen, cursor_hidden>>
    /\ UNCHANGED <<variant, now, running, handler, raw_mode>>
    /\ UNCHANGED <<chartVars, argVars, monVars, m3Vars>>
    /\ UNCHANGED <<rec_dl, rec_ul, read_at, tick, cancel_samples>>

\* if let Err(e) = result { eprintln!(..) } else { println!(..) } ; Ok(())
Report12 ==
    /\ variant \in {1, 2}
    /\ pc = "report"
    /\ pc' = "returned"
    /\ exit_status' = 0
    /\ UNCHANGED <<variant, now, running, handler>>
    /\ UNCHANGED <<chartVars, argVars, termVars, monVars, m3Vars, histVars>>

\* samples recorded so far
samples_now ==
    IF variant = 3 THEN stats.samples ELSE monitor.sample_count

\* a faulty handler, which C9_CancelEndsLoop must notice: it flips the flag
toggle_running == ~running

\* the ctrlc handler: r.store(false, Ordering::SeqCst)
store_false == FALSE

Ctrlc ==
    /\ handler
    /\ exit_status = -1
    /\ running' = store_false
    /\ cancel_samples' = IF running THEN samples_now ELSE cancel_samples
    /\ UNCHANGED <<variant, pc, now, handler, exit_status>>
    /\ UNCHANGED <<chartVars, argVars, termVars, monVars, m3Vars>>
    /\ UNCHANGED <<rec_dl, rec_ul, read_at, tick, ended_by>>

Steps12 ==
    \/ Resolve12
    \/ \E c \in FirstReadings : New12Ok(c[1], c[2])
    \/ New12Fail
    \/ \E ok \in BOOLEAN : SetHandler12(ok)
    \/ \E ok \in BOOLEAN : EnterAlt12(ok)
    \/ \E ok \in BOOLEAN : EnableRaw12(ok)
    \/ While12
    \/ \E ev \in {"none", "key", "quit", "error"} :
          \E dt \in PollWaits(variant, ev) : Poll12(dt, ev)
    \/ Update12Fail
    \/ \E c \in Readings : Update12Ok(c[1], c[2])
    \/ \E ok \in BOOLEAN, dt \in RenderTimes : Render12(ok, dt)
    \/ \E ok \in BOOLEAN : DisableRaw12(ok)
    \/ \E ok \in BOOLEAN : LeaveAlt12(ok)
    \/ Report12

Next12 == Steps12 \/ Ctrlc

Spec12 == Init12 /\ [][Next12]_vars


(***************************************************************************)
(* main of bandwidthmon3.                                                  *)
(***************************************************************************)
Init3 ==
    /\ variant = 3
    /\ args \in Args3
    /\ term_w \in (IF args.width > 0 THEN {80} ELSE TermWidths)
    /\ InitCommon

\* std::process::exit(code)
Exit(code, why) ==
    /\ pc' = "exited"
    /\ exit_status' = code
    /\ ended_by' = why

\* let interface = match find_matching_interface(&args.interface) {..}
Resolve3 ==
    /\ variant = 3
    /\ pc = "start"
    /\ LET r == find_matching_interface(iface.pat, avail) IN
       IF r.ok
       THEN /\ interface' = r.name
            /\ pc' = "spawn"
            /\ UNCHANGED <<exit_status, ended_by, message>>
       ELSE /\ Exit(1, "unresolved")
            /\ message' = [err |-> r.err, listed |-> r.listed]
            /\ UNCHANGED interface
    /\ UNCHANGED <<variant, now, running, handler, avail, iface, args>>
    /\ UNCHANGED chartVars
    /\ UNCHANGED <<termVars, monVars, m3Vars>>
    /\ UNCHANGED <<rec_dl, rec_ul, read_at, tick, cancel_samples>>

\* ctrlc::set_handler(..).expect(..) ; thread::spawn(the 'q' listener)
Spawn3 ==
    /\ variant = 3
    /\ pc = "spawn"
    /\ handler' = TRUE
    /\ listener' = TRUE
    /\ pc' = "init_read"
    /\ UNCHANGED <<variant, now, running, exit_status>>
    /\ UNCHANGED <<chartVars, argVars, termVars, monVars, histVars>>
    /\ UNCHANGED <<stats, download_history, upload_history, prev_stats,
                   last_time, term_w, loc, ticks, final_printed>>

\* let mut prev_stats = read_interface_stats(..) succeeds ;
\* let mut last_time = Instant::now()
InitRead3Ok(rx, tx) ==
    /\ variant = 3
    /\ pc = "init_read"
    /\ prev_stats' = [rx_bytes |-> rx, tx_bytes |-> tx]
    /\ read_at' = now
    /\ last_time' = now
    /\ pc' = "loop"
    /\ UNCHANGED <<variant, now, running, handler, exit_status>>
    /\ UNCHANGED <<chartVars, argVars, termVars, monVars>>
    /\ UNCHANGED <<stats, download_history, upload_history,
                   term_w, loc, ticks, listener, final_printed>>
    /\ UNCHANGED <<rec_dl, rec_ul, tick, ended_by, cancel_samples>>

\* the first read_interface_stats fails: std::process::exit(1)
InitRead3Fail ==
    /\ variant = 3
    /\ pc = "init_read"
    /\ Exit(1, "sample_error")
    /\ UNCHANGED <<variant, now, running, handler>>
    /\ UNCHANGED <<chartVars, argVars, termVars, monVars, m3Vars>>
    /\ UNCHANGED <<rec_dl, rec_ul, read_at, tick, cancel_samples>>

\* while running.load(Ordering::SeqCst)
Loop3(max) ==
    /\ variant = 3
    /\ pc = "loop"
    /\ IF running
       THEN /\ ticks < max
            /\ ticks' = ticks + 1
            /\ pc' = "sleep"
            /\ UNCHANGED ended_by
       ELSE /\ pc' = "final"
            /\ ended_by' = "interrupt"
            /\ UNCHANGED ticks
    /\ UNCHANGED <<variant, now, running, handler, exit_status>>
    /\ UNCHANGED <<chartVars, argVars, termVars, monVars>>
    /\ UNCHANGED <<stats, download_history, upload_history, prev_stats,
                   last_time, term_w, loc, listener, final_printed>>
    /\ UNCHANGED <<rec_dl, rec_ul, read_at, tick, cancel_samples>>

\* let hist_size = if args.width > 0 { args.width }
\*                 else { (term_w as usize).saturating_sub(14).max(50) }
hist_size(width, tw) ==
    IF width > 0 THEN width
    ELSE IF SaturatingSub(tw, 14) > 50 THEN SaturatingSub(tw, 14) ELSE 50

\* thread::sleep(interval) ; get_term_size() ; hist_size ;
\* now = Instant::now() ; elapsed = now - last_time ; last_time = now
Sleep3(dt, tw) ==
    /\ variant = 3
    /\ pc = "sleep"
    /\ now' = now + dt
    /\ term_w' = tw
    /\ loc' = [NoLoc EXCEPT !.hist_size = hist_size(args.width, tw),
                            !.elapsed = now' - last_time]
    /\ last_time' = now'
    /\ pc' = "read"
    /\ UNCHANGED <<variant, running, handler, exit_status>>
    /\ UNCHANGED <<chartVars, argVars, termVars, monVars, histVars>>
    /\ UNCHANGED <<stats, download_history, upload_history, prev_stats,
                   ticks, listener, final_printed>>

\* read_interface_stats fails: Err(_) => continue
Read3Fail ==
    /\ variant = 3
    /\ pc = "read"
    /\ tick' = [NoTick EXCEPT !.kind = "failed", !.at = now,
                              !.elapsed = loc.elapsed]
    /\ pc' = "loop"
    /\ UNCHANGED <<variant, now, running, handler, exit_status>>
    /\ UNCHANGED <<chartVars, argVars, termVars, monVars, m3Vars>>
    /\ UNCHANGED <<rec_dl, rec_ul, read_at, ended_by, cancel_samples>>

\* rx_diff, tx_diff, download_rate, upload_rate ; prev_stats = current_stats
Read3Ok(rx, tx) ==
    /\ variant = 3
    /\ pc = "read"
    /\ LET rx_diff == SaturatingSub(rx, prev_stats.rx_bytes)
           tx_diff == SaturatingSub(tx, prev_stats.tx_bytes)
       IN  /\ loc' = [loc EXCEPT
                        !.rx_diff = rx_diff,
                        !.tx_diff = tx_diff,
                        !.download_rate = BytesPerSec(rx_diff, loc.elapsed),
                        !.upload_rate = BytesPerSec(tx_diff, loc.elapsed)]
           /\ tick' = [kind |-> "recorded", elapsed |-> loc.elapsed,
                       rx |-> rx, tx |-> tx,
                       old_rx |-> prev_stats.rx_bytes,
                       old_tx |-> prev_stats.tx_bytes,
                       old_read_at |-> read_at, at |-> now,
                       dl |-> loc'.download_rate, ul |-> loc'.upload_rate]
    /\ prev_stats' = [rx_bytes |-> rx, tx_bytes |-> tx]
    /\ read_at' = now
    /\ pc' = "record"
    /\ UNCHANGED <<variant, now, running, handler, exit_status>>
    /\ UNCHANGED <<chartVars, argVars, termVars, monVars>>
    /\ UNCHANGED <<stats, download_history, upload_history, last_time,
                   term_w, ticks, listener, final_printed>>
    /\ UNCHANGED <<rec_dl, rec_ul, ended_by, cancel_samples>>

\* h.push_back(rate) ; if h.len() > hist_size { h.pop_front() }
push_trim(h, x, size) ==
    LET p == push_back(h, x) IN
    IF Len(p.items) > size THEN pop_front(p) ELSE p

\* a loop body that drops the statistics of the tick
stats_skip(st, l, a) == st

\* stats.samples += 1 ... and the updates under  if !args.upload_only  and
\* if !args.download_only
stats_record(st, l, a) ==
    [st EXCEPT
       !.samples = @ + 1,
       !.total_download = @ + l.rx_diff,
       !.total_upload = @ + l.tx_diff,
       !.min_download = IF a.upload_only THEN @ ELSE FMin(@, l.download_rate),
       !.max_download = IF a.upload_only THEN @ ELSE FMax(@, l.download_rate),
       !.download_rates =
            IF a.upload_only THEN @ ELSE Append(@, l.download_rate),
       !.min_upload = IF a.download_only THEN @ ELSE FMin(@, l.upload_rate),
       !.max_upload = IF a.download_only THEN @ ELSE FMax(@, l.upload_rate),
       !.upload_rates =
            IF a.download_only THEN @ ELSE Append(@, l.upload_rate)]

Record3 ==
    /\ variant = 3
    /\ pc = "record"
    /\ stats' = stats_record(stats, loc, args)
    /\ download_history' =
         IF args.upload_only THEN download_history
         ELSE push_trim(download_history, loc.download_rate, loc.hist_size)
    /\ upload_history' =
         IF args.download_only THEN upload_history
         ELSE push_trim(upload_history, loc.upload_rate, loc.hist_size)
    /\ rec_dl' = IF args.upload_only THEN rec_dl
                 ELSE Append(rec_dl, loc.download_rate)
    /\ rec_ul' = IF args.download_only THEN rec_ul
                 ELSE Append(rec_ul, loc.upload_rate)
    /\ pc' = "render"
    /\ UNCHANGED <<variant, now, running, handler, exit_status>>
    /\ UNCHANGED <<chartVars, argVars, termVars, monVars>>
    /\ UNCHANGED <<prev_stats, last_time, term_w, loc, ticks, listener,
                   final_printed>>
    /\ UNCHANGED <<read_at, tick, ended_by, cancel_samples>>

\* render_* ; if !running.load(Ordering::SeqCst) { break }
Render3 ==
    /\ variant = 3
    /\ pc = "render"
    /\ IF running
       THEN /\ pc' = "loop"
            /\ UNCHANGED ended_by
       ELSE /\ pc' = "final"
            /\ ended_by' = "interrupt"
    /\ UNCHANGED <<variant, now, running, handler, exit_status>>
    /\ UNCHANGED <<chartVars, argVars, termVars, monVars, m3Vars>>
    /\ UNCHANGED <<rec_dl, rec_ul, read_at, tick, cancel_samples>>

\* print_final_stats(&stats, &args) ; main returns
Final3 ==
    /\ variant = 3
    /\ pc = "final"
    /\ final_printed' = final_printed + 1
    /\ pc' = "done"
    /\ exit_status' = 0
    /\ UNCHANGED <<variant, now, running, handler>>
    /\ UNCHANGED <<chartVars, argVars, termVars, monVars, histVars>>
    /\ UNCHANGED <<stats, download_history, upload_history, prev_stats,
                   last_time, term_w, loc, ticks, listener>>

\* the listener thread reads the line "q": r2.store(false, ..) ; break
ListenerQ ==
    /\ listener
    /\ exit_status = -1
    /\ running' = store_false
    /\ listener' = FALSE
    /\ cancel_samples' = IF running THEN samples_now ELSE cancel_samples
    /\ UNCHANGED <<variant, pc, now, handler, exit_status>>
    /\ UNCHANGED <<chartVars, argVars, termVars, monVars>>
    /\ UNCHANGED <<stats, download_history, upload_history, prev_stats,
                   last_time, term_w, loc, ticks, final_printed>>
    /\ UNCHANGED <<rec_dl, rec_ul, read_at, tick, ended_by>>

\* the time thread::sleep(interval) and the rest of an iteration take
SleepTimes(interval) ==
    IF interval = 0 THEN {1, Millis(1)} ELSE {interval, 2 * interval}

Steps3 ==
    \/ Resolve3
    \/ Spawn3
    \/ \E c \in FirstReadings : InitRead3Ok(c[1], c[2])
    \/ InitRead3Fail
    \/ Loop3(MaxTicks)
    \/ \E dt \in SleepTimes(args.interval) :
          \E tw \in (IF args.width > 0 THEN {term_w} ELSE TermWidths) :
             Sleep3(dt, tw)
    \/ Read3Fail
    \/ \E c \in Readings : Read3Ok(c[1], c[2])
    \/ Record3
    \/ Render3
    \/ Final3

Next3 == Steps3 \/ ListenerQ \/ Ctrlc

Spec3 == Init3 /\ [][Next3]_vars

(***************************************************************************)
(* bandwidthmon3 on an idle interface: every successful read returns the   *)
(* counters of the read before.  The path through main depends on whether  *)
(* a read succeeds, never on the counters read, so this specification has  *)
(* every path of Spec3.  The main thread is scheduled: whenever it can     *)
(* take a step it eventually does.                                         *)
(***************************************************************************)
StepsIdle3 ==
    \/ Resolve3
    \/ Spawn3
    \/ \E c \in FirstReadings : InitRead3Ok(c[1], c[2])
    \/ InitRead3Fail
    \/ Loop3(MaxTicks)
    \/ \E dt \in SleepTimes(args.interval) :
          \E tw \in (IF args.width > 0 THEN {term_w} ELSE TermWidths) :
             Sleep3(dt, tw)
    \/ Read3Fail
    \/ Read3Ok(prev_stats.rx_bytes, prev_stats.tx_bytes)
    \/ Record3
    \/ Render3
    \/ Final3

NextIdle3 == StepsIdle3 \/ ListenerQ \/ Ctrlc

FairSpecIdle3 == Init3 /\ [][NextIdle3]_vars /\ WF_vars(StepsIdle3)

(***************************************************************************)
(* The three programs.                                                     *)
(***************************************************************************)
Init == Init12 \/ Init3

Next == Steps12 \/ Steps3 \/ ListenerQ \/ Ctrlc

Spec == Init /\ [][Next]_vars


(***************************************************************************)
(* bandwidthmon3 on an idle interface (the counters do not move, no read   *)
(* fails, every tick takes exactly the interval) in a terminal whose width *)
(* changes: long runs, which fill the history up to hist_size.             *)
(***************************************************************************)
InitResize ==
    /\ Init3
    /\ args.width = 0
    /\ find_matching_interface(iface.pat, avail).ok

NextResize ==
    \/ Resolve3
    \/ Spawn3
    \/ \E c \in FirstReadings : InitRead3Ok(c[1], c[2])
    \/ Loop3(MaxResizeTicks)
    \/ \E tw \in TermWidths : Sleep3(args.interval, tw)
    \/ Read3Ok(prev_stats.rx_bytes, prev_stats.tx_bytes)
    \/ Record3
    \/ Render3
    \/ Final3
    \/ Ctrlc

SpecResize == InitResize /\ [][NextResize]_vars

(***************************************************************************)
(* Interface resolution alone: main up to the resolved name or the error,  *)
(* for every list of at most MaxIfaces of the interfaces of Pool, in every *)
(* order, and every -i option of ResolveOptions.                           *)
(***************************************************************************)
eth1 == <<"e", "t", "h", "1">>
eth10 == <<"e", "t", "h", "1", "0">>

\* the interfaces the system may report, with their cumulative counters
Pool ==
    { [name |-> eth0, rx |-> 10, tx |-> 0],
      [name |-> eth1, rx |-> 30, tx |-> 5],
      [name |-> eth10, rx |-> 0, tx |-> 0],
      [name |-> wlan0, rx |-> 5, tx |-> 30] }

\* the lists of n different interfaces of Pool
RECURSIVE ListsOf(_)
ListsOf(n) ==
    IF n = 0 THEN {<<>>}
    ELSE { Append(q[1], q[2]) :
             q \in { r \in ListsOf(n - 1) \X Pool :
                        \A i \in 1..Len(r[1]) : r[1][i] # r[2] } }

IfaceLists == UNION { ListsOf(n) : n \in 0..MaxIfaces }

ResolvePatterns ==
    { <<>>, eth1, <<"e", "t", "h">>, Eth, zzz,
      <<"w", "l", "*">>, <<"e", "t", "h", "?">>, <<"e", "*", "0">>,
      <<"e", "t", "h", ".", "*">>, <<"e", "t", "+", "h", "*">>,
      <<"[", "*">> }

ResolveOptions == {NoIface} \cup {Iface(p) : p \in ResolvePatterns}

ResolveScenarios ==
    { [avail |-> l, iface |-> o] : l \in IfaceLists, o \in ResolveOptions }

InitResolve ==
    /\ variant \in {1, 2, 3}
    /\ args \in (IF variant = 3 THEN {a \in Args3 : a.width = 0}
                 ELSE {a \in Args12 : a.history = 2})
    /\ term_w = 80
    /\ InitWith(ResolveScenarios)
    /\ plot = NoPlot

NextResolve == Resolve12 \/ Resolve3

SpecResolve == InitResolve /\ [][NextResolve]_vars

(***************************************************************************)
(* render_chart alone: one call, for every series of at most MaxSeries     *)
(* values of ChartValues and every height and width of the model.          *)
(***************************************************************************)
InitChart ==
    /\ variant = 2
    /\ args \in {a \in Args12 : a.history = 2}
    /\ term_w = 80
    /\ InitWith({sc \in Scenarios : sc.avail = <<>>})
    /\ plot \in Plots

RenderChart ==
    /\ chart = NotRendered
    /\ chart' = render_chart(plot.data, plot.height, plot.width)
    /\ UNCHANGED <<progVars, argVars, termVars, monVars, m3Vars, histVars>>
    /\ UNCHANGED <<plot, ui>>

\* render_ui(monitor, stats, args, term_width) with both histories plot.data,
\* args.height plot.height and args.width plot.width
RenderUi(download, upload, term_width) ==
    /\ ui = NotDrawn
    /\ ui' = render_ui(plot.data, plot.data, plot.height, plot.width,
                       download, upload, term_width)
    /\ UNCHANGED <<progVars, argVars, termVars, monVars, m3Vars, histVars>>
    /\ UNCHANGED <<plot, chart>>

NextChart ==
    \/ RenderChart
    \/ \E f \in ChartFlags : \E tw \in UiTermWidths :
          RenderUi(f[1], f[2], tw)

SpecChart == InitChart /\ [][NextChart]_vars

(***************************************************************************)
(* NetworkMonitor alone: new, then calls of update at any distance in time *)
(* from one another, as a caller other than monitor_bandwidth may make.    *)
(***************************************************************************)
\* the time between two calls: none (the clock has not advanced) or one
\* INTERVAL
UpdateGaps(v) == {0, INTERVAL(v)}

InitUpdate ==
    /\ variant \in {1, 2}
    /\ args \in Args12
    /\ term_w = 80
    /\ InitWith({sc \in Scenarios : sc.iface = Iface(Eth)})
    /\ plot = NoPlot

\* NetworkMonitor::new(interface, history_size) returns Ok
NewCall(rx, tx) ==
    /\ variant \in {1, 2}
    /\ ~monitor.created
    /\ monitor' = new(args.history, rx, tx, now)
    /\ read_at' = now
    /\ UNCHANGED <<progVars, chartVars, argVars, termVars, m3Vars>>
    /\ UNCHANGED <<last_update, result, updates, polls>>
    /\ UNCHANGED <<rec_dl, rec_ul, tick, ended_by, cancel_samples>>

\* monitor.update() returns Ok, dt after the previous call
UpdateCall(dt, rx, tx) ==
    /\ variant \in {1, 2}
    /\ monitor.created
    /\ updates < MaxUpdates
    /\ now' = now + dt
    /\ updates' = updates + 1
    /\ monitor' = update(monitor, rx, tx, now')
    /\ LET elapsed == elapsed_since(monitor, now')
           r == update_rates(monitor, rx, tx, now')
           recorded == monitor'.sample_count > monitor.sample_count
       IN  /\ tick' = [kind |-> IF recorded THEN "recorded" ELSE "zero",
                       elapsed |-> elapsed, rx |-> rx, tx |-> tx,
                       old_rx |-> monitor.prev_rx, old_tx |-> monitor.prev_tx,
                       old_read_at |-> read_at, at |-> now',
                       dl |-> r.dl, ul |-> r.ul]
           /\ rec_dl' = IF recorded THEN Append(rec_dl, r.dl) ELSE rec_dl
           /\ rec_ul' = IF recorded THEN Append(rec_ul, r.ul) ELSE rec_ul
           /\ read_at' = IF monitor'.prev_time = now' THEN now' ELSE read_at
    /\ UNCHANGED <<variant, pc, running, handler, exit_status>>
    /\ UNCHANGED <<chartVars, argVars, termVars, m3Vars>>
    /\ UNCHANGED <<last_update, result, polls>>
    /\ UNCHANGED <<ended_by, cancel_samples>>

\* monitor.update() returns Err("Interface disappeared")
UpdateCallFail(dt) ==
    /\ variant \in {1, 2}
    /\ monitor.created
    /\ updates < MaxUpdates
    /\ now' = now + dt
    /\ updates' = updates + 1
    /\ tick' = [NoTick EXCEPT !.kind = "failed", !.at = now']
    /\ UNCHANGED <<variant, pc, running, handler, exit_status>>
    /\ UNCHANGED <<chartVars, argVars, termVars, m3Vars>>
    /\ UNCHANGED <<monitor, last_update, result, polls>>
    /\ UNCHANGED <<rec_dl, rec_ul, read_at, ended_by, cancel_samples>>

NextUpdate ==
    \/ \E r \in FirstReadings : NewCall(r[1], r[2])
    \/ \E dt \in UpdateGaps(variant) : \E r \in Readings :
          UpdateCall(dt, r[1], r[2])
    \/ \E dt \in UpdateGaps(variant) : UpdateCallFail(dt)

SpecUpdate == InitUpdate /\ [][NextUpdate]_vars

(***************************************************************************)
(* The sampling of the three programs: NetworkMonitor under direct calls   *)
(* and main of bandwidthmon3.                                              *)
(***************************************************************************)
InitSampling == InitUpdate \/ Init3

NextSampling == NextUpdate \/ Next3

SpecSampling == InitSampling /\ [][NextSampling]_vars

(***************************************************************************)
(* Properties.                                                             *)
(***************************************************************************)
\* the last n elements of s (all of s when it is shorter)
LastN(s, n) == IF Len(s) <= n THEN s ELSE SubSeq(s, Len(s) - n + 1, Len(s))

Mean(s) == FDivN(FSum(s), Len(s))

\* C1: NetworkMonitor's history_dl and history_ul never hold more than the
\* configured history size N, and hold exactly the last N recorded rates,
\* oldest first.
C1_HistoryWithinN ==
    (variant \in {1, 2} /\ monitor.created) =>
        /\ Len(monitor.history_dl.items) <= args.history
        /\ Len(monitor.history_ul.items) <= args.history
        /\ monitor.history_dl.items = LastN(rec_dl, args.history)
        /\ monitor.history_ul.items = LastN(rec_ul, args.history)

\* C2: after every tick of bandwidthmon3, download_history and
\* upload_history hold at most hist_size samples, hist_size being the one
\* computed in that tick.
C2_HistoryWithinHistSize ==
    (variant = 3 /\ ticks > 0 /\ pc \in {"render", "loop"}) =>
        /\ Len(download_history.items) <= loc.hist_size
        /\ Len(upload_history.items) <= loc.hist_size

\* C3: each recorded rate is (current counter - retained counter) divided by
\* the time between the two reads of those counters.
C3_RateOverTimeBetweenReads ==
    tick.kind = "recorded" =>
        /\ tick.dl = BytesPerSec(SaturatingSub(tick.rx, tick.old_rx),
                                 tick.at - tick.old_read_at)
        /\ tick.ul = BytesPerSec(SaturatingSub(tick.tx, tick.old_tx),
                                 tick.at - tick.old_read_at)

\* the counters the program retains for the next difference
retained_rx == IF variant = 3 THEN prev_stats.rx_bytes ELSE monitor.prev_rx
retained_tx == IF variant = 3 THEN prev_stats.tx_bytes ELSE monitor.prev_tx

\* C4: a counter lower than the retained one gives the rate 0 for that
\* direction, no recorded rate is negative, and the lower counter is retained.
C4_ResetGivesZero ==
    /\ tick.kind = "recorded" =>
        /\ tick.rx < tick.old_rx => (tick.dl = Zero /\ retained_rx = tick.rx)
        /\ tick.tx < tick.old_tx => (tick.ul = Zero /\ retained_tx = tick.tx)
    /\ \A i \in 1..Len(rec_dl) : FLeq(Zero, rec_dl[i])
    /\ \A i \in 1..Len(rec_ul) : FLeq(Zero, rec_ul[i])

\* C4 witness: the rx counter was reset while the tx counter went up
C4_Witness ==
    /\ tick.kind = "recorded"
    /\ tick.rx < tick.old_rx
    /\ tick.tx > tick.old_tx
    /\ tick.dl = Zero
    /\ tick.ul # Zero
    /\ retained_rx = tick.rx

\* C5: a sample taken less than 1 ms after the previous one reports the
\* rate 0 in both directions.
C5_TooCloseGivesZero ==
    (tick.kind \in {"recorded", "zero"} /\ tick.elapsed < Millis(1)) =>
        (tick.dl = Zero /\ tick.ul = Zero)

\* C6: a failed counter read in a tick never ends the session.
C6_FailedReadDoesNotEnd ==
    tick.kind = "failed" => ended_by # "sample_error"

\* C7: when monitor_bandwidth has returned, raw mode is disabled, the
\* alternate screen is left and the cursor is shown.
C7_TerminalRestored ==
    (variant \in {1, 2} /\ pc = "returned") =>
        (~raw_mode /\ ~alt_screen /\ ~cursor_hidden)

\* C8: the exit status is 0 after the quit key or the interrupt, and not 0
\* when no interface was resolved or a sampling error ended the session.
C8_ExitStatus ==
    exit_status # -1 =>
        /\ ended_by \in {"quit", "interrupt"} => exit_status = 0
        /\ ended_by \in {"unresolved", "sample_error"} => exit_status # 0

\* the positions of bandwidthmon3's main thread inside the main loop
LoopPcs == {"loop", "sleep", "read", "record", "render"}

\* C9: in bandwidthmon3 `running`, once false, stays false; the main loop
\* then exits after recording at most one more sample, and the final
\* statistics are printed exactly once.
C9_CancelEndsLoop ==
    /\ [][(variant = 3 /\ ~running) => ~running']_vars
    /\ (variant = 3 /\ ~running /\ pc \in LoopPcs) ~> (pc = "done")
    /\ []((variant = 3 /\ cancel_samples >= 0) =>
               stats.samples <= cancel_samples + 1)
    /\ [](variant = 3 =>
            /\ final_printed <= 1
            /\ pc = "done" => final_printed = 1
            /\ pc \in LoopPcs => final_printed = 0)

\* C9 witness: the interrupt came in mid-tick, one more sample was recorded,
\* the loop was left and the final statistics were printed
C9_Witness ==
    /\ variant = 3
    /\ pc = "done"
    /\ ~running
    /\ final_printed = 1
    /\ cancel_samples >= 1
    /\ stats.samples = cancel_samples + 1

\* C10: the running average per direction is the arithmetic mean of every
\* rate recorded since the start, evicted ones included, and the number of
\* observations never decreases.
C10_AverageIsMean ==
    /\ []((variant \in {1, 2} /\ monitor.sample_count > 0) =>
            /\ monitor.sample_count = Len(rec_dl)
            /\ monitor.sample_count = Len(rec_ul)
            /\ monitor.avg_dl = Mean(rec_dl)
            /\ monitor.avg_ul = Mean(rec_ul))
    /\ []((variant = 3 /\ rec_dl # <<>>) => avg_download(stats) = Mean(rec_dl))
    /\ []((variant = 3 /\ rec_ul # <<>>) => avg_upload(stats) = Mean(rec_ul))
    /\ [][/\ monitor'.sample_count >= monitor.sample_count
          /\ stats'.samples >= stats.samples
          /\ Len(stats'.download_rates) >= Len(stats.download_rates)
          /\ Len(stats'.upload_rates) >= Len(stats.upload_rates)]_vars

\* C10 witness: three different rates were recorded, the oldest was evicted
\* from a history of two, and the average still counts it
C10_Witness ==
    /\ variant \in {1, 2}
    /\ args.history = 2
    /\ monitor.sample_count = 3
    /\ Len(monitor.history_dl.items) = 2
    /\ rec_dl[1] # rec_dl[2] /\ rec_dl[2] # rec_dl[3] /\ rec_dl[1] # rec_dl[3]
    /\ monitor.avg_dl = Mean(rec_dl)
    /\ monitor.avg_dl # Mean(monitor.history_dl.items)

\* the peaks the program keeps, per direction
peak_download == IF variant = 3 THEN stats.max_download ELSE monitor.peak_dl
peak_upload == IF variant = 3 THEN stats.max_upload ELSE monitor.peak_ul

\* the history windows the program keeps, per direction
window_download ==
    IF variant = 3 THEN download_history.items ELSE monitor.history_dl.items
window_upload ==
    IF variant = 3 THEN upload_history.items ELSE monitor.history_ul.items

\* peak is zero when s is empty, else the largest element of s
IsMaxOf(peak, s) ==
    /\ FLeq(Zero, peak)
    /\ \A i \in 1..Len(s) : FLeq(s[i], peak)
    /\ IF s = <<>> THEN peak = Zero ELSE \E i \in 1..Len(s) : s[i] = peak

\* C11: the peak per direction starts at 0, never decreases, is never
\* negative, equals the maximum of all rates recorded so far, and is at least
\* every value in the history window.
C11_PeakIsMaximum ==
    /\ [](IsMaxOf(peak_download, rec_dl) /\ IsMaxOf(peak_upload, rec_ul))
    /\ [](\A i \in 1..Len(window_download) :
              FLeq(window_download[i], peak_download))
    /\ [](\A i \in 1..Len(window_upload) :
              FLeq(window_upload[i], peak_upload))
    /\ [][/\ FLeq(peak_download, peak_download')
          /\ FLeq(peak_upload, peak_upload')]_vars

\* C11 witness: the peak is the first of three recorded rates, which has left
\* a window of two, and the rates recorded since are smaller
C11_Witness ==
    /\ variant \in {1, 2}
    /\ args.history = 2
    /\ Len(rec_dl) = 3
    /\ peak_download = rec_dl[1]
    /\ peak_download # Zero
    /\ rec_dl[2] # peak_download /\ rec_dl[3] # peak_download
    /\ window_download = <<rec_dl[2], rec_dl[3]>>

\* main has resolved the interface / has failed to
Resolved == pc # "start" /\ ended_by # "unresolved"
Unresolved == pc # "start" /\ ended_by = "unresolved"

HasName(n) == \E i \in 1..Len(avail) : avail[i].name = n

\* the positions in avail of the names that contain pat, letter case aside
Containing(pat) ==
    { i \in 1..Len(avail) :
        Contains(ToLowercase(avail[i].name), ToLowercase(pat)) }

\* position k holds the shortest of the names at the positions K, and is the
\* first position of K to hold a name that short
ShortestFirst(k, K) ==
    /\ k \in K
    /\ \A j \in K : \/ Len(avail[k].name) < Len(avail[j].name)
                    \/ Len(avail[k].name) = Len(avail[j].name) /\ k <= j

HasWildcard(pat) == \E i \in 1..Len(pat) : pat[i] \in {"*", "?"}

\* C12: a pattern equal to one of the available names resolves to exactly
\* that name, in every variant and for every order of the interfaces.
C12_ExactMatchWins ==
    (pc # "start" /\ iface.some /\ HasName(iface.pat)) =>
        (Resolved /\ interface = iface.pat)

\* C13: resolve_interface, for a pattern equal to no name, returns the
\* shortest of the names containing the pattern case-insensitively, the
\* first in provider order among equally short ones.
C13_ShortestFirst ==
    (/\ variant \in {1, 2}
     /\ pc # "start"
     /\ iface.some
     /\ ~HasName(iface.pat)
     /\ Containing(iface.pat) # {}) =>
        /\ Resolved
        /\ \E k \in Containing(iface.pat) :
              /\ interface = avail[k].name
              /\ ShortestFirst(k, Containing(iface.pat))

\* C13 witness: [eth0, eth1, wlan0] and the pattern eth give eth0
C13_Witness ==
    /\ variant \in {1, 2}
    /\ Names(avail) = <<eth0, eth1, wlan0>>
    /\ iface = Iface(<<"e", "t", "h">>)
    /\ Resolved
    /\ interface = eth0

\* C14: find_matching_interface, for a wildcard-free pattern contained
\* case-insensitively in several names, returns the shortest of them, the
\* first in provider order among equally short ones.
C14_ShortestFirst3 ==
    (/\ variant = 3
     /\ pc # "start"
     /\ iface.pat # <<>>
     /\ ~HasWildcard(iface.pat)
     /\ Cardinality(Containing(iface.pat)) >= 2) =>
        /\ Resolved
        /\ \E k \in Containing(iface.pat) :
              /\ interface = avail[k].name
              /\ ShortestFirst(k, Containing(iface.pat))

\* the whole name n matches the wildcard pattern p, letter case aside: * is
\* zero or more characters, ? is one character, any other character is itself
RECURSIVE GlobMatch(_, _)
GlobMatch(p, n) ==
    IF p = <<>> THEN n = <<>>
    ELSE IF p[1] = "*"
        THEN \/ GlobMatch(Tail(p), n)
             \/ n # <<>> /\ GlobMatch(p, Tail(n))
    ELSE IF p[1] = "?"
        THEN n # <<>> /\ GlobMatch(Tail(p), Tail(n))
    ELSE /\ n # <<>>
         /\ ToLowerChar(p[1]) = ToLowerChar(n[1])
         /\ GlobMatch(Tail(p), Tail(n))

\* the positions in avail of the names the wildcard pattern matches
Globbing(pat) == { i \in 1..Len(avail) : GlobMatch(pat, avail[i].name) }

\* C15: find_matching_interface, for a pattern with * or ?, returns the first
\* listed name that the pattern matches as a whole (* any characters, ? one
\* character, every other character itself), and fails with NotFound when
\* there is none.
C15_WildcardFirstMatch ==
    (variant = 3 /\ pc # "start" /\ HasWildcard(iface.pat)) =>
        IF Globbing(iface.pat) = {}
        THEN Unresolved /\ message.err \in {"no_match", "no_interfaces"}
        ELSE /\ Resolved
             /\ \E k \in Globbing(iface.pat) :
                   /\ interface = avail[k].name
                   /\ \A j \in Globbing(iface.pat) : k <= j

\* C16: resolve_interface resolves a pattern with * or ? that equals no name
\* by wildcard full match: a name the pattern matches is returned when there
\* is one.
C16_WildcardInResolve ==
    (/\ variant \in {1, 2}
     /\ pc # "start"
     /\ iface.some
     /\ HasWildcard(iface.pat)
     /\ ~HasName(iface.pat)
     /\ Globbing(iface.pat) # {}) =>
        (Resolved /\ GlobMatch(iface.pat, interface))

\* C17: with the interface option absent or empty, the selected interface is
\* one with the highest rx+tx total, and resolution fails when there is no
\* interface.
C17_BusiestWhenNoPattern ==
    (pc # "start" /\ (~iface.some \/ iface.pat = <<>>)) =>
        IF avail = <<>> THEN Unresolved
        ELSE /\ Resolved
             /\ \E k \in 1..Len(avail) :
                   /\ interface = avail[k].name
                   /\ \A j \in 1..Len(avail) :
                         avail[k].rx + avail[k].tx >= avail[j].rx + avail[j].tx

\* C18: a failed resolution reports every available interface and stops the
\* program before any counter is sampled, any terminal mode is changed or any
\* monitor state is created; a resolved name is one of the available names.
C18_FailureListsInterfaces ==
    /\ Unresolved =>
          /\ \A i \in 1..Len(avail) :
                \E j \in 1..Len(message.listed) :
                    message.listed[j] = avail[i].name
          /\ pc \in {"returned", "exited"}
          /\ exit_status = 1
          /\ monitor = NoMonitor
          /\ stats = Stats_new
          /\ download_history.items = <<>> /\ upload_history.items = <<>>
          /\ tick = NoTick
          /\ ~alt_screen /\ ~raw_mode /\ ~cursor_hidden
    /\ Resolved => HasName(interface)

\* the slice of plot.data that render_chart plots: its last plot.width values
Plotted ==
    SubSeq(plot.data, SaturatingSub(Len(plot.data), plot.width) + 1,
           Len(plot.data))

Rendered == chart # NotRendered /\ plot.height > 0 /\ plot.width > 0

\* C19: render_chart on a series of equal values draws a chart whose bottom
\* row holds a solid block in every data column.
C19_FlatSeriesFillsBottom ==
    (/\ Rendered
     /\ Plotted # <<>>
     /\ \A i \in 1..Len(Plotted) :
           is_finite(Plotted[i]) /\ Plotted[i] = Plotted[1]) =>
        /\ chart.kind = "chart"
        /\ \A x \in 1..Len(Plotted) : chart.rows[plot.height].line[x] = 8

\* the finite values of a series, in order
Finite(s) == SelectSeq(s, is_finite)

\* C20: a NaN or infinite value in a plotted slice that has finite values
\* blanks only its own column: no error text, and the labels and the other
\* columns are those of the finite values alone.
C20_NonFiniteSkipped ==
    (/\ Rendered
     /\ Finite(Plotted) # <<>>
     /\ \E i \in 1..Len(Plotted) : ~is_finite(Plotted[i])) =>
        /\ chart.kind = "chart"
        /\ \A r \in 1..plot.height : \A x \in 1..Len(Plotted) :
              ~is_finite(Plotted[x]) => chart.rows[r].line[x] = 0
        /\    LET lo == fold_min(Finite(Plotted), FInfinity)
                  hi == fold_max(Finite(Plotted), NegInfinity)
              IN  /\ chart.rows[1].label = format_label(hi)
                  /\ plot.height > 1 =>
                        chart.rows[plot.height].label = format_label(lo)
                  /\ \A r \in 1..plot.height : \A x \in 1..Len(Plotted) :
                        is_finite(Plotted[x]) =>
                            chart.rows[r].line[x] =
                                chart_cell(Plotted[x], lo, chart_range(lo, hi),
                                           plot.height, r - 1)

\* a slice of finite values only (the rates of the model are not negative)
AllFinite == Plotted # <<>> /\ Finite(Plotted) = Plotted

\* C21: for every height and every series of finite rates the top row
\* carries the label of the maximum, row height/2 the label of the midpoint
\* and the bottom row the label of the minimum, every other row carries the
\* blank label, and every label is 7 characters wide.
C21_ThreeLabels ==
    (Rendered /\ AllFinite) =>
        /\ chart.kind = "chart"
        /\    LET lo == fold_min(Plotted, FInfinity)
                  hi == fold_max(Plotted, NegInfinity)
                  h == plot.height
              IN  /\ chart.rows[1].label = format_label(hi)
                  /\ chart.rows[h \div 2 + 1].label =
                        format_label(FDivN(FAdd(hi, lo), 2))
                  /\ chart.rows[h].label = format_label(lo)
                  /\ \A r \in 1..h :
                        r \notin {1, h \div 2 + 1, h} =>
                            chart.rows[r].label = BlankLabel
        /\ \A r \in 1..plot.height : label_width(chart.rows[r].label) = 7

\* C22: render_chart returns the empty string, not an error text, whenever
\* the series is empty or height is 0 or width is 0, and render_ui draws no
\* chart when the chart width it computes is 0.
C22_EmptyResult ==
    /\ (chart # NotRendered
           /\ (plot.data = <<>> \/ plot.height = 0 \/ plot.width = 0)) =>
          chart = EmptyString
    /\ (ui.drawn /\ ui.chart_width = 0) =>
          \A i \in 1..Len(ui.charts) : ui.charts[i] = EmptyString

\* a series with values rendered at width 0, and drawn by render_ui with no
\* --width on a terminal 15 columns wide
C22_Witness ==
    /\ chart = EmptyString
    /\ plot.data # <<>> /\ plot.height > 0 /\ plot.width = 0
    /\ ui.drawn /\ ui.chart_width = 0 /\ Len(ui.charts) = 2

\* C23: after every call of update that returns Ok, the call that reports
\* the zero rate because less than 1 ms has passed included, prev_rx, prev_tx
\* and prev_time are the counters and the time read in that call.
C23_PrevIsThisTick ==
    (variant \in {1, 2} /\ tick.kind \in {"recorded", "zero"}) =>
        /\ monitor.prev_rx = tick.rx
        /\ monitor.prev_tx = tick.tx
        /\ monitor.prev_time = tick.at

Last(s) == s[Len(s)]

\* bandwidthmon3: the state the main loop samples into
sampled == <<stats, download_history, upload_history, prev_stats>>

\* bandwidthmon3: the last successful read is on record in the counters, in
\* the statistics and in the history of each direction that is shown
tick_applied ==
    /\ prev_stats = [rx_bytes |-> tick.rx, tx_bytes |-> tick.tx]
    /\ stats.samples >= 1
    /\ ~args.upload_only =>
          /\ stats.download_rates # <<>>
          /\ Last(stats.download_rates) = tick.dl
          /\ download_history.items # <<>>
          /\ Last(download_history.items) = tick.dl
    /\ ~args.download_only =>
          /\ stats.upload_rates # <<>>
          /\ Last(stats.upload_rates) = tick.ul
          /\ upload_history.items # <<>>
          /\ Last(upload_history.items) = tick.ul

\* C24: in bandwidthmon3 a step that changes `running` sets it to false and
\* changes nothing the main loop samples into, and is not a step of the main
\* thread; stats, the histories and prev_stats change in steps of the main
\* thread only; and outside the one position between the read and the
\* recording of a tick, the loop left after a cancellation included, the
\* last successful read is recorded whole.
C24_MainLoopSoleMutator ==
    /\ [][variant = 3 =>
            /\ running' # running =>
                  (~running' /\ pc' = pc /\ sampled' = sampled)
            /\ sampled' # sampled => (pc' # pc /\ running' = running)]_vars
    /\ []((variant = 3 /\ tick.kind = "recorded" /\ pc # "record") =>
              tick_applied)

\* C24 witness: `running` fell between the read and the recording of the
\* second tick, and the loop was left with that tick recorded
C24_Witness ==
    /\ variant = 3
    /\ pc = "final"
    /\ ended_by = "interrupt"
    /\ tick.kind = "recorded"
    /\ stats.samples = 2
    /\ cancel_samples = 1
    /\ prev_stats.rx_bytes = tick.rx
    /\ tick.rx > tick.old_rx

\* a slice with a finite value and no infinity: its minimum and maximum
Drawable ==
    /\ Finite(Plotted) # <<>>
    /\ \A i \in 1..Len(Plotted) : is_finite(Plotted[i]) \/ Plotted[i] = NaN
slice_min == fold_min(Finite(Plotted), FInfinity)
slice_max == fold_max(Finite(Plotted), NegInfinity)

\* y = (1 - (value - min) / range) * height of column x of the slice
y_of(x) ==
    FMulN(FSub(Rat(1, 1),
               FDiv(FSub(Plotted[x], slice_min),
                    chart_range(slice_min, slice_max))),
          plot.height)

\* the cell of row r (0 the top row) of column x, and the solid cells of x
cell_at(r, x) == chart.rows[r + 1].line[x]
bar_height(x) == Cardinality({r \in 0..(plot.height - 1) : cell_at(r, x) = 8})

\* C25: in the column of every finite value the rows floor(y) .. height-1
\* are solid and the rows above floor(y)-1 are blank, a higher value never
\* has a lower bar, the column of the maximum is solid in every row, and row
\* floor(y)-1 holds a glyph only when the fraction of y is above 0.1.
C25_BarsFromBottom ==
    (Rendered /\ Drawable) =>
        /\ chart.kind = "chart"
        /\ \A x \in 1..Len(Plotted) : is_finite(Plotted[x]) =>
              LET y_int == Floor(y_of(x))
                  y_frac == FSub(y_of(x), Rat(y_int, 1))
              IN  /\ \A r \in 0..(plot.height - 1) :
                        /\ r >= y_int => cell_at(r, x) = 8
                        /\ r < y_int - 1 => cell_at(r, x) = 0
                        /\ (r = y_int - 1 /\ cell_at(r, x) # 0) =>
                              (cell_at(r, x) \in 1..7
                                 /\ ~FLeq(y_frac, Rat(1, 10)))
                  /\ \A r \in 0..(plot.height - 1) :
                        cell_at(r, x) = 8 =>
                            \A q \in r..(plot.height - 1) : cell_at(q, x) = 8
                  /\ Plotted[x] = slice_max =>
                        \A r \in 0..(plot.height - 1) : cell_at(r, x) = 8
        /\ \A x1, x2 \in 1..Len(Plotted) :
              (is_finite(Plotted[x1]) /\ is_finite(Plotted[x2])
                 /\ FLeq(Plotted[x1], Plotted[x2])) =>
                    bar_height(x1) <= bar_height(x2)

\* what NetworkMonitor accumulates from the samples
accumulated(m) ==
    <<m.history_dl, m.history_ul, m.peak_dl, m.peak_ul, m.avg_dl, m.avg_ul,
      m.sample_count>>

\* C26: with a history size N >= 1, history_dl and history_ul of a
\* NetworkMonitor have the same length, min(sample_count, N), after every
\* sequence of calls of update; and a call that changes a history or a
\* statistic counts one sample and appends the rates of that call to both
\* histories.
C26_HistoriesInStep ==
    /\ []((variant \in {1, 2} /\ monitor.created /\ args.history >= 1) =>
            /\ Len(monitor.history_dl.items) = Len(monitor.history_ul.items)
            /\ Len(monitor.history_dl.items) =
                  (IF monitor.sample_count < args.history
                   THEN monitor.sample_count ELSE args.history))
    /\ [][(variant \in {1, 2} /\ monitor.created /\ args.history >= 1
              /\ accumulated(monitor') # accumulated(monitor)) =>
            /\ monitor'.sample_count = monitor.sample_count + 1
            /\ tick'.kind = "recorded"
            /\ Last(monitor'.history_dl.items) = tick'.dl
            /\ Last(monitor'.history_ul.items) = tick'.ul
            /\ monitor'.avg_dl =
                  mean_step(monitor.avg_dl, tick'.dl, monitor'.sample_count)
            /\ monitor'.avg_ul =
                  mean_step(monitor.avg_ul, tick'.ul, monitor'.sample_count)
            /\ monitor'.peak_dl = FMax(monitor.peak_dl, tick'.dl)
            /\ monitor'.peak_ul = FMax(monitor.peak_ul, tick'.ul)]_vars

\* C26 witness: three samples, the oldest evicted from a history of size 2
C26_Witness ==
    /\ variant \in {1, 2}
    /\ args.history = 2
    /\ monitor.sample_count = 3
    /\ tick.kind = "recorded"
    /\ Len(monitor.history_dl.items) = 2
    /\ monitor.history_dl.items # monitor.history_ul.items

\* C27: a call of update that fails, or that is made less than 1 ms after
\* the previous sample, leaves both histories, the peaks, the averages and
\* sample_count as they were; a failed read in bandwidthmon3 leaves stats,
\* both histories and prev_stats as they were.
C27_NoSampleNoChange ==
    [][/\ (variant \in {1, 2} /\ updates' = updates + 1
             /\ (tick'.kind = "failed" \/ tick'.elapsed < Millis(1))) =>
              (accumulated(monitor') = accumulated(monitor)
                 /\ rec_dl' = rec_dl /\ rec_ul' = rec_ul)
       /\ (variant = 3 /\ pc = "read" /\ pc' = "loop") =>
              (tick'.kind = "failed" /\ sampled' = sampled
                 /\ rec_dl' = rec_dl /\ rec_ul' = rec_ul)]_vars

\* C27 witness: a call of update found the counters advanced but came too
\* early, after a sample had been recorded
C27_Witness ==
    /\ variant \in {1, 2}
    /\ tick.kind = "zero"
    /\ tick.rx > tick.old_rx
    /\ monitor.sample_count >= 1
    /\ monitor.history_dl.items # <<>>
    /\ monitor.peak_dl # Zero

\* C28: the loop of bandwidthmon and bandwidthmon2 calls update only when at
\* least INTERVAL has passed since last_update, so every call comes at least
\* INTERVAL after the call or the construction that retained the counters
\* and never takes the elapsed < 1 ms branch; and an iteration that reads a
\* quit key ends the loop without an update.
C28_UpdatesAnIntervalApart ==
    /\ []((variant \in {1, 2} /\ pc = "update") =>
              now - last_update >= INTERVAL(variant))
    /\ []((variant \in {1, 2} /\ tick.kind # "none") =>
              /\ tick.kind # "zero"
              /\ tick.kind = "recorded" =>
                    /\ tick.elapsed >= INTERVAL(variant)
                    /\ tick.at - tick.old_read_at >= INTERVAL(variant))
    /\ [][(variant \in {1, 2} /\ (ended_by' = "quit" \/ ended_by = "quit")) =>
            (pc' # "update" /\ updates' = updates /\ monitor' = monitor)]_vars

\* C28 witness: two samples recorded, then a quit key
C28_Witness ==
    /\ variant \in {1, 2}
    /\ ended_by = "quit"
    /\ updates >= 2
    /\ tick.kind = "recorded"
    /\ tick.old_read_at > 0

\* C29: for a series of finite values, height >= 1 and width >= 1, every
\* canvas index render_chart uses has its row below height and its column
\* below width; the columns are those of the last `width` values of the
\* series, the oldest of them at column 0, the minimum of the slice, whose
\* y is height, writing no cell.
C29_IndicesInCanvas ==
    (Rendered /\ AllFinite) =>
        /\ chart.kind = "chart"
        /\ \A i \in chart.indices :
              /\ i[1] \in 0..(plot.height - 1)
              /\ i[2] \in 0..(plot.width - 1)
        /\    LET last == LastN(plot.data, plot.width)
                  lo == fold_min(last, FInfinity)
              IN  \A x \in 1..plot.width :
                    (\E i \in chart.indices : i[2] = x - 1) <=>
                        (x <= Len(last) /\ last[x] # lo)

\* C29 witness: a series longer than the canvas is wide, on a canvas of
\* more than one row, whose oldest value, left out, is above all the others
C29_Witness ==
    /\ Rendered /\ AllFinite
    /\ Len(plot.data) > plot.width
    /\ plot.height > 1
    /\ chart.indices # {}
    /\ is_finite(plot.data[1])
    /\ ~FLeq(plot.data[1], slice_max)

=============================================================================
